---- MODULE Spec2Model ----
(***************************************************************************)
(* Reployer++ : the server monitor (src/ui/mainWindow.py, MainWindow) and  *)
(* the FastDL map downloader (src/downloadWorker.py, DownloadWorker).      *)
(*                                                                         *)
(* Spec    models the monitor: the poll pipeline (executor future, done    *)
(*         callback, queued signal, _apply_poll_result), apply_profile and *)
(*         the main-window side of the download thread.                    *)
(* SpecDL  models one DownloadWorker.run() racing with cancel().           *)
(***************************************************************************)
EXTENDS Integers, Sequences, FiniteSets, TLC

(***************************************************************************)
(* Bounds of the model                                                     *)
(***************************************************************************)
\* polls submitted to the executor in one behaviour
MaxPolls == 6
\* successful query results produced in one behaviour
MaxOkPolls == 2
\* user actions: profile switches and manual download requests
MaxUserActions == 1
\* data chunks one HTTP stream delivers
MaxChunks == 2
\* download jobs the main window starts in one behaviour
MaxJobs == 3
\* tokens of a FastDL template
MaxTemplateLen == 3
\* players in one roster
MaxRoster == 2

(***************************************************************************)
(* State                                                                   *)
(***************************************************************************)
VARIABLES
    \* ---- MainWindow ----
    a2s_available,                \* constants.A2S_AVAILABLE
    prefs,                        \* self.prefs
    profile,                      \* self.profile
    query_fail_count,
    last_offline_state,           \* "None" | "True" | "False"
    last_map,
    last_player_count,
    last_alert_player_triggered,
    lbl_ov_state,                 \* lbl_ov_state / lbl_side_status
    lbl_ov_server,
    lbl_side_map,                 \* lbl_side_map / lbl_ov_map
    lbl_side_players,             \* lbl_side_players / lbl_ov_players
    act_connect,
    act_sourcetv,
    act_download,
    players_model,                \* rows of the player table
    csv_files,                    \* logs/<server>/player_log.csv per profile name
    toast_shown,                  \* toasts (and their sounds) shown by the latest step
    \* ---- poll pipeline ----
    poll_count,                   \* futures created so far (their ids are 1..poll_count)
    poll_future,                  \* self._poll_future: id of the latest future, 0 = None
    poll_running,                 \* futures not done: {[id, addr]}
    poll_signals,                 \* poll_result_ready emissions queued to the GUI thread
    ok_polls,                     \* successful results so far (bounded)
    \* ---- main-window side of the download thread ----
    dl_jobs,                      \* map name of every worker started; ids are 1..Len
    dl_thread,                    \* self._dl_thread: id or 0 = None
    dl_worker,                    \* self._dl_worker: id or 0 = None
    dl_running,                   \* QThreads whose isRunning() is true
    dl_cleanup_queued,            \* queued _cleanup_dl_thread calls
    dl_done,                      \* jobs whose worker has emitted finished
    dl_quit,                      \* threads on which quit() has been called
    \* ---- history kept for the properties ----
    outcomes,                     \* ok flags applied since the profile was activated
    delivered,                    \* results applied per future id
    user_actions,                 \* profile switches and manual downloads so far (bounded)
    outage_offline_toasts,        \* OFFLINE toasts since the last success / activation
    \* ---- DownloadWorker (one job) and its output directory ----
    w_pc,                         \* where run() is: start, open, check, read, post,
                                  \* decompress, done
    w_ext,                        \* the stream _download_stream is on: ".bsp" / ".bsp.bz2"
    w_cancel,                     \* self._cancel
    w_done,                       \* done
    w_last_bytes,                 \* last_bytes
    w_total,                      \* total (Content-Length, 0 when not advertised)
    w_chunks,                     \* data chunks read from the current stream (bounded)
    w_events,                     \* status / progress / finished signals emitted so far
    w_requests,                   \* http_open calls so far, each with _cancel at that time
    fs_bsp,                       \* <out_dir>/<map>.bsp
    fs_bz2,                       \* <out_dir>/<map>.bsp.bz2
    \* ---- history kept for the properties ----
    w_stream_result,              \* per stream: the message _download_stream returned
    w_decomp,                     \* outcome of the decompression step
    w_cancel_at,                  \* where run() was when cancel() was first called
    \* ---- functions checked on their own inputs ----
    urls,                         \* DownloadWorker: template, base, map and the built URLs
    hist,                         \* MainWindow: a history log, the clock and self.history
    prof,                         \* ServerProfile: editor form, profile, dict, loaded profile
    gwin                          \* AppPrefs: prefs.json, self.prefs and the graph combo

mwState == <<a2s_available, prefs, profile, query_fail_count, last_offline_state,
             last_map, last_player_count, last_alert_player_triggered,
             lbl_ov_state, lbl_ov_server, lbl_side_map, lbl_side_players,
             act_connect, act_sourcetv, act_download, players_model, csv_files>>
mwVars == <<mwState, toast_shown>>
pollVars == <<poll_count, poll_future, poll_running, poll_signals, ok_polls>>
dlMwVars ==
    <<dl_jobs, dl_thread, dl_worker, dl_running, dl_cleanup_queued, dl_done, dl_quit>>
histVars == <<outcomes, delivered, user_actions, outage_offline_toasts>>

monVars == <<mwVars, pollVars, dlMwVars, histVars>>

wVars == <<w_pc, w_ext, w_cancel, w_done, w_last_bytes, w_total, w_chunks, w_events,
           w_requests, fs_bsp, fs_bz2, w_stream_result, w_decomp, w_cancel_at>>

pureVars == <<urls, hist, prof, gwin>>

vars == <<monVars, wVars, pureVars>>

(***************************************************************************)
(* Inputs: profiles, preferences, query results                            *)
(***************************************************************************)
ProfileAlpha ==
    [name |-> "alpha", address |-> <<"10.0.0.1", 27015>>,
     fastdl |-> "http://fastdl.example/tf", game |-> "tf2", appid |-> 0,
     fastdl_template |-> "{base}/maps/{map}.bsp",
     auto_download_on_map_change |-> TRUE]

ProfileBeta ==
    [name |-> "beta", address |-> <<"10.0.0.2", 27016>>,
     fastdl |-> "", game |-> "other", appid |-> 0,
     fastdl_template |-> "{base}/maps/{map}.bsp",
     auto_download_on_map_change |-> FALSE]

Profiles == {ProfileAlpha, ProfileBeta}
ProfileNames == {p.name : p \in Profiles}

PrefsSet ==
    {[player_alert_threshold |-> 2, alert_on_map_change |-> TRUE],
     [player_alert_threshold |-> 0, alert_on_map_change |-> FALSE]}

PlayerAnn == [name |-> "Ann", score |-> 3, duration |-> 125]
PlayerBob == [name |-> "bob", score |-> 7, duration |-> 59]

\* what the server may answer to one a2s info + players query
Snapshots ==
    {[map_name |-> "cp_dustbowl", max_players |-> 24, players |-> <<>>],
     [map_name |-> "pl_upward", max_players |-> 24, players |-> <<PlayerAnn, PlayerBob>>],
     [map_name |-> "Unknown", max_players |-> 0, players |-> <<PlayerBob>>]}

\* f"{host}:{port}"
AddrText(addr) ==
    CASE addr = <<"10.0.0.1", 27015>> -> "10.0.0.1:27015"
      [] addr = <<"10.0.0.2", 27016>> -> "10.0.0.2:27016"
      [] OTHER -> "?:?"

\* the server_name the server at addr reports in its a2s info
ServerNameAt(addr) ==
    CASE addr = <<"10.0.0.1", 27015>> -> "Alpha Server"
      [] addr = <<"10.0.0.2", 27016>> -> "Beta Server"
      [] OTHER -> AddrText(addr)

NoToast == <<>>
Toast(msg, arg) == [msg |-> msg, arg |-> arg]


(***************************************************************************)
(* Pure helpers of the monitor                                             *)
(***************************************************************************)
\* MainWindow._poll_server_once: the PollResult of one query against addr
PollOk(addr, snap) ==
    [ok |-> TRUE, server_name |-> ServerNameAt(addr), map_name |-> snap.map_name,
     player_count |-> Len(snap.players), max_players |-> snap.max_players,
     players |-> snap.players, error |-> ""]

PollFailed(addr) ==
    [ok |-> FALSE, server_name |-> AddrText(addr), map_name |-> "Unknown",
     player_count |-> 0, max_players |-> 0, players |-> <<>>, error |-> "timed out"]

PollServerOnce(addr, canSucceed) ==
    {PollFailed(addr)} \cup
    (IF canSucceed THEN {PollOk(addr, s) : s \in Snapshots} ELSE {})

\* utils.fmt_hms_from_seconds
fmt_hms_from_seconds(seconds) ==
    LET sec == IF seconds < 0 THEN 0 ELSE seconds
        h == sec \div 3600
        m == (sec % 3600) \div 60
        s == sec % 60
    IN  IF h > 0 THEN <<h, "h", m, "m">>
        ELSE IF m > 0 THEN <<m, "m", s, "s">>
        ELSE <<s, "s">>

\* str.lower() order of the names the model uses
LowerNameRank(name) ==
    CASE name = "Ann" -> 1
      [] name = "bob" -> 2
      [] name = "Cy" -> 3
      [] OTHER -> 0

\* variant: the comparison of an ascending sort
KeyGreater_Ascending(p, q) ==
    \/ q.score > p.score
    \/ q.score = p.score /\ q.duration > p.duration
    \/ q.score = p.score /\ q.duration = p.duration
         /\ LowerNameRank(q.name) > LowerNameRank(p.name)

\* the sort key of _update_players_model compared: key(p) > key(q)
KeyGreater(p, q) ==
    \/ p.score > q.score
    \/ p.score = q.score /\ p.duration > q.duration
    \/ p.score = q.score /\ p.duration = q.duration
         /\ LowerNameRank(p.name) > LowerNameRank(q.name)

\* sorted(players, key=..., reverse=True): stable, descending
RECURSIVE InsertDesc(_, _)
InsertDesc(p, sorted) ==
    IF sorted = <<>> THEN <<p>>
    ELSE IF KeyGreater(p, Head(sorted)) THEN <<p>> \o sorted
    ELSE <<Head(sorted)>> \o InsertDesc(p, Tail(sorted))

RECURSIVE SortedRows(_)
SortedRows(players) ==
    IF players = <<>> THEN <<>>
    ELSE LET rest == SortedRows(SubSeq(players, 1, Len(players) - 1))
         IN  InsertDesc(players[Len(players)], rest)

\* MainWindow._update_players_model: the rows the table holds afterwards
UpdatePlayersModel(players) ==
    LET rows == SortedRows(players)
    IN  [i \in 1..Len(rows) |->
            [name |-> rows[i].name, score |-> rows[i].score,
             time |-> fmt_hms_from_seconds(rows[i].duration)]]

\* the players a2s_players may report, and the rosters of up to MaxRoster of them
RosterPlayers == [name : {"Ann", "bob", "Cy"}, score : {3, 7}, duration : {59, 125}]

Rosters ==
    {r \in UNION {[1..n -> RosterPlayers] : n \in 0..MaxRoster} :
        \A i, j \in 1..Len(r) : i # j => r[i].name # r[j].name}

\* the players label: "count/max" when max_players is set, else "count"
PlayersText(result) ==
    IF result.max_players # 0
    THEN [count |-> result.player_count, max |-> result.max_players]
    ELSE [count |-> result.player_count, max |-> 0]

PlayersTextUnknown == [count |-> -1, max |-> -1]

\* utils.default_appid_for_game (constants.GAME_APPIDS), 0 for None
default_appid_for_game(game) ==
    CASE game = "tf2" -> 440
      [] game = "hl2dm" -> 320
      [] game = "gmod" -> 4000
      [] OTHER -> 0

\* MainWindow._can_launch_game
CanLaunchGame(p) ==
    (IF p.appid # 0 THEN p.appid ELSE default_appid_for_game(p.game)) # 0

BoolStr(b) == IF b THEN "True" ELSE "False"

\* mutants of IsOfflineNow: an off-by-one threshold, either way
IsOfflineNow_Late(fail_count) == fail_count > 5
IsOfflineNow_Early(fail_count) == fail_count >= 4

\* the consecutive-failure threshold of _apply_poll_result
IsOfflineNow(fail_count) == fail_count >= 5

\* mutant of ToastStateTransition: no comparison with the recorded flag, so the
\* toast is shown at every offline observation after the baseline
ToastStateTransition_EveryPoll(los, offline_now) ==
    IF los = "None"
    THEN [los |-> BoolStr(offline_now), toasts |-> NoToast]
    ELSE [los |-> BoolStr(offline_now),
          toasts |-> IF offline_now
                     THEN <<Toast("Server went OFFLINE", "")>>
                     ELSE <<Toast("Server is ONLINE", "")>>]

\* MainWindow._toast_state_transition: the new last_offline_state and the toast
ToastStateTransition(los, offline_now) ==
    IF los = "None"
    THEN [los |-> BoolStr(offline_now), toasts |-> NoToast]
    ELSE IF los # BoolStr(offline_now)
    THEN [los |-> BoolStr(offline_now),
          toasts |-> IF offline_now
                     THEN <<Toast("Server went OFFLINE", "")>>
                     ELSE <<Toast("Server is ONLINE", "")>>]
    ELSE [los |-> los, toasts |-> NoToast]

\* variant: the file is written afresh with its header on every call
EnsureServerCsv_Rewrites(files, name) ==
    [files EXCEPT ![name] = [exists |-> TRUE, headers |-> 1, rows |-> <<>>]]

\* utils.ensure_server_csv: the header is written when the file does not exist
EnsureServerCsv(files, name) ==
    IF files[name].exists THEN files
    ELSE [files EXCEPT ![name] = [exists |-> TRUE, headers |-> 1, rows |-> <<>>]]

\* the names column of _log_csv
PlayerNamesField(players) ==
    IF players = <<>> THEN <<"None">>
    ELSE [i \in 1..Len(players) |-> players[i].name]

\* MainWindow._log_csv: one appended record
LogCsv(files, name, result) ==
    LET f == EnsureServerCsv(files, name)
    IN  [f EXCEPT ![name].rows =
            Append(@, [count |-> result.player_count, map |-> result.map_name,
                       names |-> PlayerNamesField(result.players)])]

\* MainWindow._handle_alerts: the new alert flag and the toast
\* variant: the alert fires on every poll at or above the threshold
HandleAlerts_LevelTriggered(thr, triggered, player_count) ==
    IF thr > 0 /\ player_count >= thr
    THEN [triggered |-> TRUE, toasts |-> <<Toast("Player alert", "")>>]
    ELSE [triggered |-> FALSE, toasts |-> NoToast]

HandleAlerts(thr, triggered, player_count) ==
    IF thr > 0
    THEN IF player_count >= thr
         THEN IF ~triggered
              THEN [triggered |-> TRUE, toasts |-> <<Toast("Player alert", "")>>]
              ELSE [triggered |-> triggered, toasts |-> NoToast]
         ELSE [triggered |-> FALSE, toasts |-> NoToast]
    ELSE [triggered |-> triggered, toasts |-> NoToast]

\* number of trailing FALSE entries of a sequence of ok flags
RECURSIVE TrailingFailures(_)
TrailingFailures(seq) ==
    IF seq = <<>> \/ seq[Len(seq)] THEN 0
    ELSE 1 + TrailingFailures(SubSeq(seq, 1, Len(seq) - 1))


(***************************************************************************)
(* DownloadWorker: signals, files, initial state                           *)
(***************************************************************************)
Exts == {".bsp", ".bsp.bz2"}

\* os.path.join(self.out_dir, f"{self.map_name}.bsp") and its .bz2 sibling
BspPath == "<out_dir>/<map>.bsp"
Bz2Path == "<out_dir>/<map>.bsp.bz2"

\* the three signals of the worker, as records of one shape
EvStatus(msg) ==
    [kind |-> "status", msg |-> msg, ok |-> FALSE, path |-> "",
     done |-> 0, total |-> 0, speed |-> 0]
EvProgress(done, total, speed) ==
    [kind |-> "progress", msg |-> "", ok |-> FALSE, path |-> "",
     done |-> done, total |-> total, speed |-> speed]
EvFinished(ok, msg, path) ==
    [kind |-> "finished", msg |-> msg, ok |-> ok, path |-> path,
     done |-> 0, total |-> 0, speed |-> 0]

\* a file of the output directory: size in bytes written, complete when the writer
\* wrote all it had and closed it
FileAbsent == [exists |-> FALSE, size |-> 0, complete |-> FALSE]
FileWhole(size) == [exists |-> TRUE, size |-> size, complete |-> TRUE]
\* open(dest_path, "wb")
FileTruncated == [exists |-> TRUE, size |-> 0, complete |-> FALSE]

\* lengths resp.read(64 * 1024) returns for a data chunk, in units of the model
ChunkLens == {1, 2}

NeverCancelled == [pc |-> "never", ext |-> "", chunks |-> 0]

\* DownloadWorker.__init__, the output directory as an earlier job may have left it
WorkerInit ==
    /\ w_pc = "start"
    /\ w_ext = ".bsp"
    /\ w_cancel = FALSE
    /\ w_done = 0
    /\ w_last_bytes = 0
    /\ w_total = 0
    /\ w_chunks = 0
    /\ w_events = <<>>
    /\ w_requests = <<>>
    /\ fs_bsp \in {FileAbsent, FileWhole(2)}
    /\ fs_bz2 \in {FileAbsent, FileWhole(1)}
    /\ w_stream_result = [e \in Exts |-> ""]
    /\ w_decomp = "none"
    /\ w_cancel_at = NeverCancelled

\* no worker constructed (the monitor specification)
WorkerParked ==
    /\ WorkerInit
    /\ fs_bsp = FileAbsent
    /\ fs_bz2 = FileAbsent

(***************************************************************************)
(* DownloadWorker._build_url on strings as sequences of tokens            *)
(***************************************************************************)
\* the pieces a template is written with; " " is white space
TemplateTokens == {"{base}", "{map}", "/", ".bsp", ".bz2", "maps", " "}

Templates == UNION {[1..n -> TemplateTokens] : n \in 0..MaxTemplateLen}

\* profile.fastdl as entered, and the map names of the side label
RawBases == {<<"http://h">>, <<"http://h", "/">>, <<" ", "/">>}
MapNames == {<<"cp_dustbowl">>, <<"a", ".bsp">>, <<>>}

EndsWith(str, suffix) ==
    /\ Len(str) >= Len(suffix)
    /\ SubSeq(str, Len(str) - Len(suffix) + 1, Len(str)) = suffix

RECURSIVE LStrip(_)
LStrip(str) ==
    IF str # <<>> /\ Head(str) = " " THEN LStrip(Tail(str)) ELSE str

\* str.rstrip(ch)
RECURSIVE RStripToken(_, _)
RStripToken(str, ch) ==
    IF str # <<>> /\ str[Len(str)] = ch
    THEN RStripToken(SubSeq(str, 1, Len(str) - 1), ch)
    ELSE str

\* str.strip()
Strip(str) == RStripToken(LStrip(str), " ")

\* utils.normalize_fastdl
normalize_fastdl(url) ==
    LET u == Strip(url)
    IN  IF u # <<>> THEN RStripToken(u, "/") ELSE <<>>

\* str.replace(old, new) for a one-token old
RECURSIVE Replace(_, _, _)
Replace(str, old, new) ==
    IF str = <<>> THEN <<>>
    ELSE (IF Head(str) = old THEN new ELSE <<Head(str)>>) \o Replace(Tail(str), old, new)

\* DownloadWorker.__init__: self.template
WorkerTemplate(template) ==
    IF Strip(template) # <<>> THEN Strip(template)
    ELSE <<"{base}", "/", "maps", "/", "{map}", ".bsp">>

\* the first line of _build_url
ResolvedUrl(template, base, map_name) ==
    Replace(Replace(WorkerTemplate(template), "{base}", normalize_fastdl(base)),
            "{map}", map_name)

\* variant: a template ending in ".bsp.bz2" is not cut back for the .bsp URL
build_url_NoSwap(template, base, map_name, ext) ==
    LET url == ResolvedUrl(template, base, map_name)
    IN  IF ext = ".bsp"
        THEN IF EndsWith(url, <<".bsp">>) THEN url
             ELSE IF EndsWith(url, <<"/">>) THEN url \o map_name \o <<".bsp">>
             ELSE url \o <<".bsp">>
        ELSE IF EndsWith(url, <<".bsp", ".bz2">>) THEN url
             ELSE IF EndsWith(url, <<".bsp">>) THEN url \o <<".bz2">>
             ELSE IF EndsWith(url, <<"/">>) THEN url \o map_name \o <<".bsp", ".bz2">>
             ELSE url \o <<".bsp", ".bz2">>

\* DownloadWorker._build_url
build_url(template, base, map_name, ext) ==
    LET url == ResolvedUrl(template, base, map_name)
    IN  IF ext = ".bsp"
        THEN IF EndsWith(url, <<".bsp">>) THEN url
             ELSE IF EndsWith(url, <<".bsp", ".bz2">>) THEN SubSeq(url, 1, Len(url) - 1)
             ELSE IF EndsWith(url, <<"/">>) THEN url \o map_name \o <<".bsp">>
             ELSE url \o <<".bsp">>
        ELSE IF EndsWith(url, <<".bsp", ".bz2">>) THEN url
             ELSE IF EndsWith(url, <<".bsp">>) THEN url \o <<".bz2">>
             ELSE IF EndsWith(url, <<"/">>) THEN url \o map_name \o <<".bsp", ".bz2">>
             ELSE url \o <<".bsp", ".bz2">>

UrlsParked ==
    urls = [template |-> <<>>, base |-> <<>>, map_name |-> <<>>, built |-> FALSE,
            bsp |-> <<>>, bz2 |-> <<>>]

\* a worker constructed for any template, base and map name
UrlsInit ==
    \E t \in Templates, b \in RawBases, m \in MapNames :
        urls = [template |-> t, base |-> b, map_name |-> m, built |-> FALSE,
                bsp |-> <<>>, bz2 |-> <<>>]

\* run(): url_bsp = self._build_url(".bsp"); url_bz2 = self._build_url(".bsp.bz2")
BuildUrls ==
    /\ ~urls.built
    /\ urls' = [urls EXCEPT
                  !.built = TRUE,
                  !.bsp = build_url(urls.template, urls.base, urls.map_name, ".bsp"),
                  !.bz2 = build_url(urls.template, urls.base, urls.map_name, ".bsp.bz2")]
    /\ UNCHANGED <<monVars, wVars, hist, prof, gwin>>

(***************************************************************************)
(* MainWindow._load_history_from_csv; times in half seconds                *)
(***************************************************************************)
\* deque(maxlen=6000)
TailMaxLen == 6000

\* the graph windows of the combo box, in minutes
WindowMinutes == {5, 15, 60}

\* records in the log, the time between two records and from the last record to the
\* load (half seconds)
LogLens == {0, 1, 2, 3, TailMaxLen - 1, TailMaxLen, TailMaxLen + 1}
LogSteps == {9, 401}
LoadDelays == {1, 7}

HeaderLine == [kind |-> "header", t |-> 0, count |-> 0]

\* the i-th record _log_csv appended: now_utc_iso() with its fraction, the player count
RecordLine(h, i) == [kind |-> "record", t |-> i * h.step, count |-> i % 3]

\* the file: the header ensure_server_csv wrote, then the records
LogLines(h) == [i \in 1..(h.n + 1) |-> IF i = 1 THEN HeaderLine ELSE RecordLine(h, i - 1)]

\* datetime.now(timezone.utc).timestamp() at the load and cutoff_ts
LoadTime(h) == h.n * h.step + h.delay
CutoffTs(h) == LoadTime(h) - h.window * 60 * 2

\* for line in f: tail.append(line)
DequeTail(lines) ==
    IF Len(lines) > TailMaxLen
    THEN SubSeq(lines, Len(lines) - TailMaxLen + 1, Len(lines))
    ELSE lines

\* int(datetime.fromisoformat(text).timestamp()): whole seconds
TimestampSeconds(line) == line.t \div 2

\* csv.DictReader(tail) takes the first line it is given for the field names; a row
\* is kept when row["UTC Timestamp"] exists and parses and t is not before the cutoff
load_history_from_csv(h) ==
    LET tail == DequeTail(LogLines(h))
        fieldnames == Head(tail)
        Kept(line) ==
            /\ fieldnames.kind = "header"
            /\ line.kind = "record"
            /\ ~(2 * TimestampSeconds(line) < CutoffTs(h))
        rows == SelectSeq(Tail(tail), Kept)
    IN  [i \in 1..Len(rows) |-> <<TimestampSeconds(rows[i]), rows[i].count>>]

HistParked ==
    hist = [n |-> 0, step |-> 0, delay |-> 0, window |-> 0, loaded |-> FALSE,
            history |-> <<>>]

\* a log of n records and a window chosen; self.history = [] from __init__
HistInit ==
    \E n \in LogLens, st \in LogSteps, d \in LoadDelays, w \in WindowMinutes :
        hist = [n |-> n, step |-> st, delay |-> d, window |-> w, loaded |-> FALSE,
                history |-> <<>>]

LoadHistory ==
    /\ ~hist.loaded
    /\ hist' = [hist EXCEPT !.loaded = TRUE, !.history = load_history_from_csv(hist)]
    /\ UNCHANGED <<monVars, wVars, urls, prof, gwin>>

(***************************************************************************)
(* ServerProfile.to_dict / from_dict, utils.parse_address                  *)
(***************************************************************************)
\* constants.DEFAULT_PORT
DEFAULT_PORT == 27015

\* the default of fastdl_template
DefaultFastdlTemplate == <<"{base}", "/", "maps", "/", "{map}", ".bsp">>

\* port numbers as text: f"{port}" and int(port_s)
PortText(port) ==
    CASE port = 1 -> "1"
      [] port = 27015 -> "27015"
      [] port = 65535 -> "65535"
      [] port = 0 -> "0"
      [] port = 65536 -> "65536"
DigitTexts == {"0", "1", "27015", "65535", "65536"}
IntOfText(text) == CHOOSE n \in {0, 1, 27015, 65535, 65536} : PortText(n) = text

\* the profile editor's fields as typed
Forms ==
    [name : {<<"n">>, <<" ", "n", " ">>, <<" ">>},
     host : {<<"h">>, <<"h", ":", "x">>, <<>>},
     port : {1, 27015, 65535},
     game : {<<"tf2">>, <<"other">>},
     fastdl : {<<>>, <<"u">>, <<"u", "/">>, <<"u", " ", "/">>},
     template : {<<>>, <<"{base}", "/", "{map}">>},
     appid : {1, 730},
     auto : BOOLEAN]

BlankForm ==
    [name |-> <<>>, host |-> <<>>, port |-> DEFAULT_PORT, game |-> <<"tf2">>,
     fastdl |-> <<>>, template |-> <<>>, appid |-> 1, auto |-> FALSE]

\* no profile (None); appid 0 stands for None
NoProfile ==
    [name |-> <<>>, host |-> <<>>, port |-> 0, fastdl |-> <<>>, game |-> <<>>,
     appid |-> 0, fastdl_template |-> <<>>, auto_download_on_map_change |-> FALSE]

\* ProfileEditorDialog._on_save: the ServerProfile, or none when a field is missing
on_save(form) ==
    LET name == Strip(form.name)
        host == Strip(form.host)
        template == IF Strip(form.template) # <<>> THEN Strip(form.template)
                    ELSE DefaultFastdlTemplate
    IN  IF name = <<>> \/ host = <<>> THEN NoProfile
        ELSE [name |-> name, host |-> host, port |-> form.port,
              fastdl |-> normalize_fastdl(Strip(form.fastdl)),
              game |-> Strip(form.game),
              appid |-> IF Strip(form.game) = <<"other">> THEN form.appid
                        ELSE default_appid_for_game(form.game[1]),
              fastdl_template |-> template,
              auto_download_on_map_change |-> form.auto]

OptionalKeys ==
    {"fastdl", "game", "appid", "fastdl_template", "auto_download_on_map_change"}
AllKeys == {"name", "address"} \cup OptionalKeys

EmptyDict ==
    [keys |-> {}, name |-> <<>>, address |-> <<>>, fastdl |-> <<>>, game |-> <<>>,
     appid |-> 0, fastdl_template |-> <<>>, auto_download_on_map_change |-> FALSE]

\* ServerProfile.to_dict
to_dict(p) ==
    [keys |-> AllKeys, name |-> p.name,
     address |-> p.host \o <<":", PortText(p.port)>>,
     fastdl |-> p.fastdl, game |-> p.game, appid |-> p.appid,
     fastdl_template |-> p.fastdl_template,
     auto_download_on_map_change |-> p.auto_download_on_map_change]

\* d.get(key, default)
DictGet(d, key, default) == IF key \in d.keys THEN d[key] ELSE default

\* utils.parse_address on the stripped text
parse_address(text) ==
    LET addr == Strip(text)
        colons == {i \in 1..Len(addr) : addr[i] = ":"}
        Fail(msg) == [error |-> msg, host |-> <<>>, port |-> 0]
    IN  IF addr = <<>> THEN Fail("Empty address")
        ELSE IF colons = {} THEN [error |-> "", host |-> addr, port |-> DEFAULT_PORT]
        ELSE LET k == CHOOSE i \in colons : \A j \in colons : j <= i
                 host == Strip(SubSeq(addr, 1, k - 1))
                 port_s == Strip(SubSeq(addr, k + 1, Len(addr)))
             IN  IF host = <<>> THEN Fail("Invalid host")
                 ELSE IF ~(Len(port_s) = 1 /\ port_s[1] \in DigitTexts)
                 THEN Fail("Port must be numeric")
                 ELSE IF ~(1 <= IntOfText(port_s[1]) /\ IntOfText(port_s[1]) <= 65535)
                 THEN Fail("Port out of range")
                 ELSE [error |-> "", host |-> host, port |-> IntOfText(port_s[1])]

\* ServerProfile.from_dict: the profile, or the error parse_address raised
from_dict(d) ==
    LET a == parse_address(Strip(DictGet(d, "address", <<>>)))
        game == Strip(DictGet(d, "game", <<"tf2">>))
        template == Strip(DictGet(d, "fastdl_template", DefaultFastdlTemplate))
    IN  IF a.error # "" THEN [error |-> a.error, p |-> NoProfile]
        ELSE [error |-> "",
              p |-> [name |-> Strip(DictGet(d, "name", <<>>)),
                     host |-> a.host, port |-> a.port,
                     fastdl |-> normalize_fastdl(Strip(DictGet(d, "fastdl", <<>>))),
                     game |-> IF game # <<>> THEN game ELSE <<"tf2">>,
                     appid |-> DictGet(d, "appid", 0),
                     fastdl_template |-> IF template # <<>> THEN template
                                         ELSE DefaultFastdlTemplate,
                     auto_download_on_map_change |->
                         DictGet(d, "auto_download_on_map_change", FALSE)]]

\* records of servers.json: name and address, any of the optional keys
FileAddresses ==
    {<<"h">>, <<" ", "h", " ">>, <<"h", ":", "27015">>, <<"h", ":", " ", "1">>,
     <<"h", ":", "abc">>, <<"h", ":", "0">>, <<"h", ":", "65536">>, <<"h", ":">>,
     <<":", "1">>, <<>>}

FileDicts ==
    {[keys |-> {"name", "address"} \cup ks, name |-> <<"n">>, address |-> a,
      fastdl |-> <<"u", "/">>, game |-> g, appid |-> 730,
      fastdl_template |-> <<"{base}", "/", "{map}">>,
      auto_download_on_map_change |-> TRUE] :
        ks \in SUBSET OptionalKeys, a \in FileAddresses, g \in {<<"other">>, <<" ">>}}

ProfParked ==
    prof = [stage |-> "parked", origin |-> "none", form |-> BlankForm, p |-> NoProfile,
            d |-> EmptyDict, q |-> [error |-> "", p |-> NoProfile]]

\* a form filled in the editor, or a record found in servers.json
ProfInit ==
    \/ \E f \in Forms :
         prof = [stage |-> "form", origin |-> "form", form |-> f, p |-> NoProfile,
                 d |-> EmptyDict, q |-> [error |-> "", p |-> NoProfile]]
    \/ \E d \in FileDicts :
         prof = [stage |-> "dict", origin |-> "file", form |-> BlankForm, p |-> NoProfile,
                 d |-> d, q |-> [error |-> "", p |-> NoProfile]]

\* the editor's Save button
EditorSave ==
    /\ prof.stage = "form"
    /\ prof' = [prof EXCEPT !.p = on_save(prof.form),
                            !.stage = IF on_save(prof.form) = NoProfile THEN "refused"
                                      ELSE "profile"]
    /\ UNCHANGED <<monVars, wVars, urls, hist, gwin>>

\* the profile manager stores p.to_dict()
ProfileToDict ==
    /\ prof.stage = "profile"
    /\ prof' = [prof EXCEPT !.d = to_dict(prof.p), !.stage = "dict"]
    /\ UNCHANGED <<monVars, wVars, urls, hist, gwin>>

\* ServerProfile.from_dict(d) when the servers are loaded
ProfileFromDict ==
    /\ prof.stage = "dict"
    /\ prof' = [prof EXCEPT !.q = from_dict(prof.d), !.stage = "loaded"]
    /\ UNCHANGED <<monVars, wVars, urls, hist, gwin>>

(***************************************************************************)
(* AppPrefs: load_prefs, the settings dialog and the graph-window combo    *)
(***************************************************************************)
\* the items of combo_graph_window, by index
GraphWindows == <<5, 15, 60>>

\* AppPrefs(): the dataclass defaults
DefaultAppPrefs ==
    [player_alert_threshold |-> 0, alert_on_map_change |-> TRUE, graph_window_minutes |-> 15]

\* a key of prefs.json: absent, a number, or text that int() rejects
KeyAbsent == [kind |-> "absent", v |-> 0]
KeyInt(n) == [kind |-> "int", v |-> n]
KeyJunk == [kind |-> "junk", v |-> 0]

\* what prefs.json may hold
PrefFiles ==
    [graph_window_minutes :
         {KeyAbsent, KeyJunk, KeyInt(0), KeyInt(5), KeyInt(7), KeyInt(15), KeyInt(60)},
     player_alert_threshold : {KeyAbsent, KeyInt(0), KeyInt(2)},
     alert_on_map_change : {KeyAbsent, KeyInt(0), KeyInt(1)}]

\* AppPrefs.to_dict, as save_prefs writes it
prefs_to_dict(p) ==
    [graph_window_minutes |-> KeyInt(p.graph_window_minutes),
     player_alert_threshold |-> KeyInt(p.player_alert_threshold),
     alert_on_map_change |-> KeyInt(IF p.alert_on_map_change THEN 1 ELSE 0)]

\* d.get(key, default) followed by int() or bool()
KeyValue(k, default) == IF k.kind = "absent" THEN default ELSE k.v

\* AppPrefs.from_dict on a dict whose numbers int() accepts
prefs_from_dict(d) ==
    [player_alert_threshold |-> KeyValue(d.player_alert_threshold, 0),
     alert_on_map_change |-> KeyValue(d.alert_on_map_change, 1) # 0,
     graph_window_minutes |-> KeyValue(d.graph_window_minutes, 15)]

\* utils.load_prefs: an exception in from_dict gives AppPrefs()
load_prefs(d) ==
    IF \E k \in DOMAIN d : d[k].kind = "junk" THEN DefaultAppPrefs ELSE prefs_from_dict(d)

\* max(0, combo.findData(minutes))
ComboIndex(minutes) ==
    IF \E i \in DOMAIN GraphWindows : GraphWindows[i] = minutes
    THEN CHOOSE i \in DOMAIN GraphWindows : GraphWindows[i] = minutes
    ELSE 1

GwinParked ==
    gwin = [stage |-> "parked", file |-> prefs_to_dict(DefaultAppPrefs),
            prefs |-> DefaultAppPrefs, combo |-> ComboIndex(15)]

\* before the application starts: whatever prefs.json holds
GwinInit ==
    \E d \in PrefFiles :
        gwin = [stage |-> "file", file |-> d, prefs |-> DefaultAppPrefs,
                combo |-> ComboIndex(15)]

\* application start: load_prefs, then MainWindow.__init__ selects the combo item
LoadPrefs ==
    /\ gwin.stage # "parked"
    /\ gwin' = [gwin EXCEPT !.stage = "running",
                            !.prefs = load_prefs(gwin.file),
                            !.combo = ComboIndex(load_prefs(gwin.file).graph_window_minutes)]
    /\ UNCHANGED <<monVars, wVars, urls, hist, prof>>

\* MainWindow.open_settings, accepted: SettingsDialog.prefs(), save_prefs, combo reset
SettingsSave ==
    /\ gwin.stage = "running"
    /\ \E i \in DOMAIN GraphWindows, thr \in {0, 2}, amc \in BOOLEAN :
         LET p == [player_alert_threshold |-> thr, alert_on_map_change |-> amc,
                   graph_window_minutes |-> GraphWindows[i]]
         IN  gwin' = [gwin EXCEPT !.prefs = p, !.file = prefs_to_dict(p),
                                  !.combo = ComboIndex(p.graph_window_minutes)]
    /\ UNCHANGED <<monVars, wVars, urls, hist, prof>>

\* MainWindow._on_graph_window_changed: the user picks another combo item
GraphWindowChanged ==
    /\ gwin.stage = "running"
    /\ \E i \in DOMAIN GraphWindows :
         /\ i # gwin.combo
         /\ LET p == [gwin.prefs EXCEPT !.graph_window_minutes = GraphWindows[i]]
            IN  gwin' = [gwin EXCEPT !.prefs = p, !.file = prefs_to_dict(p), !.combo = i]
    /\ UNCHANGED <<monVars, wVars, urls, hist, prof>>

PureParked == UrlsParked /\ HistParked /\ ProfParked /\ GwinParked

(***************************************************************************)
(* Monitor: initial state (MainWindow.__init__, which ends in              *)
(* apply_profile(profile, announce=False) and so in the first start_poll)  *)
(***************************************************************************)
NoCsvFiles == [n \in ProfileNames |-> [exists |-> FALSE, headers |-> 0, rows |-> <<>>]]

PollIds == 1..(MaxPolls + 1)

MonitorInit ==
    /\ a2s_available \in BOOLEAN
    /\ prefs \in PrefsSet
    /\ profile = ProfileAlpha
    /\ query_fail_count = 0
    /\ last_offline_state = (IF a2s_available THEN "None" ELSE "True")
    /\ last_map = "Unknown"
    /\ last_player_count = 0
    /\ last_alert_player_triggered = FALSE
    /\ lbl_ov_state = (IF a2s_available THEN "Checking" ELSE "OFFLINE")
    /\ lbl_ov_server = "Connecting"
    /\ lbl_side_map = "Unknown"
    /\ lbl_side_players = PlayersTextUnknown
    /\ act_connect = FALSE
    /\ act_sourcetv = FALSE
    /\ act_download = FALSE
    /\ players_model = <<>>
    /\ csv_files = EnsureServerCsv(NoCsvFiles, profile.name)
    /\ toast_shown = NoToast
    /\ poll_count = (IF a2s_available THEN 1 ELSE 0)
    /\ poll_future = (IF a2s_available THEN 1 ELSE 0)
    /\ poll_running = (IF a2s_available THEN {[id |-> 1, addr |-> profile.address]} ELSE {})
    /\ poll_signals = <<>>
    /\ ok_polls = 0
    /\ dl_jobs = <<>>
    /\ dl_thread = 0
    /\ dl_worker = 0
    /\ dl_running = {}
    /\ dl_cleanup_queued = 0
    /\ dl_done = {}
    /\ dl_quit = {}
    /\ outcomes = <<>>
    /\ delivered = [i \in PollIds |-> 0]
    /\ user_actions = 0
    /\ outage_offline_toasts = 0

\* the monitor with no download worker constructed yet
Init == MonitorInit /\ WorkerParked /\ PureParked

(***************************************************************************)
(* Monitor: polling                                                        *)
(***************************************************************************)
\* "self._poll_future and not self._poll_future.done()"
PollFutureBusy ==
    poll_future # 0 /\ \E r \in poll_running : r.id = poll_future

\* executor.submit(self._poll_server_once, addr) + add_done_callback
SubmitPoll(addr) ==
    /\ poll_count' = poll_count + 1
    /\ poll_future' = poll_count + 1
    /\ poll_running' = poll_running \cup {[id |-> poll_count + 1, addr |-> addr]}
    /\ UNCHANGED <<poll_signals, ok_polls>>

\* mutant of StartPollSubmit: the in-flight guard is missing
StartPollSubmit_NoGuard(addr) == SubmitPoll(addr)

\* what start_poll does to the poll pipeline when the query backend is there
StartPollSubmit(addr) ==
    IF PollFutureBusy THEN UNCHANGED pollVars ELSE SubmitPoll(addr)

\* OFFLINE toasts of the current outage after a handler that showed `toasts`
CountOffline(toasts) ==
    Cardinality({i \in 1..Len(toasts) : toasts[i].msg = "Server went OFFLINE"})

\* MainWindow.start_poll (poll timer, the 50 ms single shot, the refresh action)
StartPoll ==
    /\ poll_count < MaxPolls
    /\ IF ~a2s_available
       THEN LET t == ToastStateTransition(last_offline_state, TRUE)
            IN  /\ last_offline_state' = t.los
                /\ toast_shown' = t.toasts
                /\ outage_offline_toasts' = outage_offline_toasts + CountOffline(t.toasts)
                /\ lbl_ov_state' = "OFFLINE"
                /\ act_connect' = FALSE
                /\ act_sourcetv' = FALSE
                /\ act_download' = FALSE
                /\ UNCHANGED pollVars
       ELSE /\ StartPollSubmit(profile.address)
            /\ toast_shown' = NoToast
            /\ UNCHANGED <<last_offline_state, outage_offline_toasts, lbl_ov_state,
                           act_connect, act_sourcetv, act_download>>
    /\ UNCHANGED <<a2s_available, prefs, profile, query_fail_count, last_map,
                   last_player_count, last_alert_player_triggered, lbl_ov_server,
                   lbl_side_map, lbl_side_players, players_model, csv_files>>
    /\ UNCHANGED <<dlMwVars, outcomes, delivered, user_actions>>
    /\ UNCHANGED <<wVars, pureVars>>

\* a worker thread returns from _poll_server_once, the future becomes done and its
\* done-callback MainWindow._on_poll_done, run by the same worker thread right after,
\* emits poll_result_ready, which Qt queues to the GUI thread.  The PollResult travels
\* unread to _apply_poll_result, which is where the model draws its content (from the
\* results a query of r.addr can give)
OnPollDone ==
    \E r \in poll_running :
        /\ poll_running' = poll_running \ {r}
        /\ poll_signals' = Append(poll_signals, r)
        /\ toast_shown' = NoToast
        /\ UNCHANGED <<poll_count, poll_future, ok_polls>>
        /\ UNCHANGED <<mwState, dlMwVars, histVars>>
        /\ UNCHANGED <<wVars, pureVars>>

(***************************************************************************)
(* Monitor: downloads as the main window sees them                         *)
(***************************************************************************)
\* "self._dl_thread and self._dl_thread.isRunning()"
DlThreadRunning == dl_thread # 0 /\ dl_thread \in dl_running

\* MainWindow.download_current_map for the map the side label shows; `prior` are the
\* toasts the running handler has shown before the call, `later` those after it
DownloadCurrentMap(map_name, prior, later) ==
    IF profile.fastdl = ""
    THEN /\ toast_shown' = prior \o <<Toast("FastDL not set", "")>> \o later
         /\ UNCHANGED <<dl_jobs, dl_thread, dl_worker, dl_running>>
    ELSE IF map_name = "" \/ map_name = "Unknown"
    THEN /\ toast_shown' = prior \o <<Toast("No map info yet", "")>> \o later
         /\ UNCHANGED <<dl_jobs, dl_thread, dl_worker, dl_running>>
    ELSE IF DlThreadRunning
    THEN /\ toast_shown' = prior \o <<Toast("Download already running", "")>> \o later
         /\ UNCHANGED <<dl_jobs, dl_thread, dl_worker, dl_running>>
    ELSE /\ dl_jobs' = Append(dl_jobs, map_name)
         /\ dl_thread' = Len(dl_jobs) + 1
         /\ dl_worker' = Len(dl_jobs) + 1
         /\ dl_running' = dl_running \cup {Len(dl_jobs) + 1}
         /\ toast_shown' = prior \o <<Toast("Downloading", map_name)>> \o later

\* the download action / button
ManualDownload ==
    /\ user_actions < MaxUserActions
    /\ user_actions' = user_actions + 1
    /\ DownloadCurrentMap(lbl_side_map, NoToast, NoToast)
    /\ UNCHANGED <<a2s_available, prefs, profile, query_fail_count, last_offline_state,
                   last_map, last_player_count, last_alert_player_triggered,
                   lbl_ov_state, lbl_ov_server, lbl_side_map, lbl_side_players,
                   act_connect, act_sourcetv, act_download, players_model, csv_files>>
    /\ UNCHANGED <<dl_cleanup_queued, dl_done, dl_quit, pollVars, outcomes, delivered,
                   outage_offline_toasts>>
    /\ UNCHANGED <<wVars, pureVars>>

\* the download action / button, counted by the jobs it has started
DownloadRequest ==
    /\ Len(dl_jobs) < MaxJobs
    /\ DownloadCurrentMap(lbl_side_map, NoToast, NoToast)
    /\ UNCHANGED <<mwState, dl_cleanup_queued, dl_done, dl_quit, pollVars, histVars>>
    /\ UNCHANGED <<wVars, pureVars>>

\* a worker emits finished: the slot connected in download_current_map calls quit() on
\* the thread self._dl_thread refers to at that moment, if any; a thread whose worker
\* has returned and on which quit() was called stops running, and its finished signal
\* queues _cleanup_dl_thread
DlThreadFinished ==
    \E id \in dl_running \ dl_done :
        LET quit == IF dl_thread # 0 THEN dl_quit \cup {dl_thread} ELSE dl_quit
            done == dl_done \cup {id}
            ended == {j \in dl_running : j \in done /\ j \in quit}
        IN  /\ dl_done' = done
            /\ dl_quit' = quit
            /\ dl_running' = dl_running \ ended
            /\ dl_cleanup_queued' = dl_cleanup_queued + Cardinality(ended)
            /\ toast_shown' = NoToast
            /\ UNCHANGED <<dl_jobs, dl_thread, dl_worker>>
            /\ UNCHANGED <<mwState, pollVars, histVars>>
            /\ UNCHANGED <<wVars, pureVars>>

\* MainWindow._cleanup_dl_thread
CleanupDlThread ==
    /\ dl_cleanup_queued > 0
    /\ dl_cleanup_queued' = dl_cleanup_queued - 1
    /\ dl_worker' = 0
    /\ dl_thread' = 0
    /\ toast_shown' = NoToast
    /\ UNCHANGED <<dl_jobs, dl_running, dl_done, dl_quit>>
    /\ UNCHANGED <<mwState, pollVars, histVars>>
    /\ UNCHANGED <<wVars, pureVars>>

(***************************************************************************)
(* Monitor: MainWindow._apply_poll_result                                  *)
(***************************************************************************)
\* mutant of ApplyFailure: going OFFLINE clears the player table and the map label
ApplyFailure_Clearing(result) ==
    LET count == query_fail_count + 1
        t == ToastStateTransition(last_offline_state, TRUE)
    IN  /\ query_fail_count' = count
        /\ IF IsOfflineNow(count)
           THEN /\ last_offline_state' = t.los
                /\ toast_shown' = t.toasts
                /\ outage_offline_toasts' = outage_offline_toasts + CountOffline(t.toasts)
                /\ lbl_ov_state' = "OFFLINE"
                /\ act_connect' = FALSE
                /\ act_sourcetv' = FALSE
                /\ act_download' = FALSE
                /\ players_model' = <<>>
                /\ lbl_side_map' = "Unknown"
           ELSE /\ lbl_ov_state' = "UNSTABLE"
                /\ toast_shown' = NoToast
                /\ UNCHANGED <<last_offline_state, outage_offline_toasts,
                               act_connect, act_sourcetv, act_download,
                               players_model, lbl_side_map>>
        /\ outcomes' = Append(outcomes, FALSE)
        /\ UNCHANGED <<a2s_available, prefs, profile, last_map, last_player_count,
                       last_alert_player_triggered, lbl_ov_server,
                       lbl_side_players, csv_files>>
        /\ UNCHANGED dlMwVars

\* variant: going OFFLINE leaves the actions as they were
ApplyFailure_ActionsStayEnabled(result) ==
    LET count == query_fail_count + 1
        t == ToastStateTransition(last_offline_state, TRUE)
    IN  /\ query_fail_count' = count
        /\ IF IsOfflineNow(count)
           THEN /\ last_offline_state' = t.los
                /\ toast_shown' = t.toasts
                /\ outage_offline_toasts' = outage_offline_toasts + CountOffline(t.toasts)
                /\ lbl_ov_state' = "OFFLINE"
                /\ UNCHANGED <<act_connect, act_sourcetv, act_download>>
           ELSE /\ lbl_ov_state' = "UNSTABLE"
                /\ toast_shown' = NoToast
                /\ UNCHANGED <<last_offline_state, outage_offline_toasts,
                               act_connect, act_sourcetv, act_download>>
        /\ outcomes' = Append(outcomes, FALSE)
        /\ UNCHANGED <<a2s_available, prefs, profile, last_map, last_player_count,
                       last_alert_player_triggered, lbl_ov_server, lbl_side_map,
                       lbl_side_players, players_model, csv_files>>
        /\ UNCHANGED dlMwVars

\* the "if not result.ok" branch, _set_offline_state included
ApplyFailure(result) ==
    LET count == query_fail_count + 1
        t == ToastStateTransition(last_offline_state, TRUE)
    IN  /\ query_fail_count' = count
        /\ IF IsOfflineNow(count)
           THEN /\ last_offline_state' = t.los
                /\ toast_shown' = t.toasts
                /\ outage_offline_toasts' = outage_offline_toasts + CountOffline(t.toasts)
                /\ lbl_ov_state' = "OFFLINE"
                /\ act_connect' = FALSE
                /\ act_sourcetv' = FALSE
                /\ act_download' = FALSE
           ELSE /\ lbl_ov_state' = "UNSTABLE"
                /\ toast_shown' = NoToast
                /\ UNCHANGED <<last_offline_state, outage_offline_toasts,
                               act_connect, act_sourcetv, act_download>>
        /\ outcomes' = Append(outcomes, FALSE)
        /\ UNCHANGED <<a2s_available, prefs, profile, last_map, last_player_count,
                       last_alert_player_triggered, lbl_ov_server, lbl_side_map,
                       lbl_side_players, players_model, csv_files>>
        /\ UNCHANGED dlMwVars

\* the success branch
ApplySuccess(result) ==
    LET t == ToastStateTransition(last_offline_state, FALSE)
        a == HandleAlerts(prefs.player_alert_threshold, last_alert_player_triggered,
                          result.player_count)
        map_changed == last_map # "Unknown" /\ last_map # result.map_name
        auto_dl == /\ profile.auto_download_on_map_change
                   /\ result.map_name # "Unknown"
                   /\ map_changed
        map_toast == IF prefs.alert_on_map_change /\ map_changed
                     THEN <<Toast("Map changed", result.map_name)>>
                     ELSE NoToast
    IN  /\ query_fail_count' = 0
        /\ last_offline_state' = t.los
        /\ lbl_ov_state' = "ONLINE"
        /\ lbl_ov_server' = result.server_name
        /\ lbl_side_map' = result.map_name
        /\ lbl_side_players' = PlayersText(result)
        /\ act_connect' = CanLaunchGame(profile)
        /\ act_sourcetv' = CanLaunchGame(profile)
        /\ act_download' = (profile.fastdl # "" /\ result.map_name # "Unknown")
        /\ players_model' = UpdatePlayersModel(result.players)
        /\ csv_files' = LogCsv(csv_files, profile.name, result)
        /\ last_alert_player_triggered' = a.triggered
        /\ IF auto_dl
           THEN DownloadCurrentMap(result.map_name, t.toasts \o a.toasts, map_toast)
           ELSE /\ toast_shown' = t.toasts \o a.toasts \o map_toast
                /\ UNCHANGED <<dl_jobs, dl_thread, dl_worker, dl_running>>
        /\ last_map' = result.map_name
        /\ last_player_count' = result.player_count
        /\ outcomes' = Append(outcomes, TRUE)
        /\ outage_offline_toasts' = 0
        /\ UNCHANGED <<a2s_available, prefs, profile, dl_cleanup_queued, dl_done, dl_quit>>

\* the GUI thread takes the next queued poll_result_ready emission
ApplyPollResult ==
    /\ poll_signals # <<>>
    /\ LET c == Head(poll_signals)
       IN  \E result \in PollServerOnce(c.addr, ok_polls < MaxOkPolls) :
             /\ poll_signals' = Tail(poll_signals)
             /\ delivered' = [delivered EXCEPT ![c.id] = @ + 1]
             /\ ok_polls' = IF result.ok THEN ok_polls + 1 ELSE ok_polls
             /\ IF result.ok THEN ApplySuccess(result) ELSE ApplyFailure(result)
    /\ UNCHANGED <<poll_count, poll_future, poll_running, user_actions>>
    /\ UNCHANGED <<wVars, pureVars>>

(***************************************************************************)
(* Monitor: MainWindow.apply_profile                                       *)
(***************************************************************************)
ApplyProfile(p, announce) ==
    LET said == IF announce THEN <<Toast("Switched to", p.name)>> ELSE NoToast
        \* start_poll at the end, with last_offline_state already reset to None
        t == ToastStateTransition("None", TRUE)
    IN  /\ user_actions < MaxUserActions
        /\ poll_count < MaxPolls
        /\ user_actions' = user_actions + 1
        /\ profile' = p
        /\ csv_files' = EnsureServerCsv(csv_files, p.name)
        /\ query_fail_count' = 0
        /\ last_map' = "Unknown"
        /\ last_player_count' = 0
        /\ last_alert_player_triggered' = FALSE
        /\ players_model' = <<>>
        /\ lbl_side_map' = "Unknown"
        /\ lbl_side_players' = PlayersTextUnknown
        /\ lbl_ov_server' = "Connecting"
        /\ act_connect' = FALSE
        /\ act_sourcetv' = FALSE
        /\ act_download' = FALSE
        /\ outcomes' = <<>>
        /\ outage_offline_toasts' = 0
        /\ IF ~a2s_available
           THEN /\ last_offline_state' = t.los
                /\ lbl_ov_state' = "OFFLINE"
                /\ toast_shown' = said \o t.toasts
                /\ UNCHANGED pollVars
           ELSE /\ last_offline_state' = "None"
                /\ lbl_ov_state' = "Checking"
                /\ toast_shown' = said
                /\ StartPollSubmit(p.address)
        /\ UNCHANGED <<a2s_available, prefs, dlMwVars, delivered>>
        /\ UNCHANGED <<wVars, pureVars>>

\* the profile combo (another profile than the active one) or the profile manager
SwitchProfile ==
    \E p \in Profiles : ApplyProfile(p, TRUE)

Next ==
    \/ StartPoll
    \/ OnPollDone
    \/ ApplyPollResult
    \/ SwitchProfile
    \/ ManualDownload
    \/ DlThreadFinished
    \/ CleanupDlThread

Spec == Init /\ [][Next]_vars

\* the monitor of one profile with repeated download requests
NextJobs ==
    \/ StartPoll
    \/ OnPollDone
    \/ ApplyPollResult
    \/ DownloadRequest
    \/ DlThreadFinished
    \/ CleanupDlThread

SpecJobs == Init /\ [][NextJobs]_vars

\* MainWindow._update_players_model called with a roster
UpdateRows ==
    /\ \E roster \in Rosters : players_model' = UpdatePlayersModel(roster)
    /\ toast_shown' = NoToast
    /\ UNCHANGED <<a2s_available, prefs, profile, query_fail_count, last_offline_state,
                   last_map, last_player_count, last_alert_player_triggered,
                   lbl_ov_state, lbl_ov_server, lbl_side_map, lbl_side_players,
                   act_connect, act_sourcetv, act_download, csv_files>>
    /\ UNCHANGED <<pollVars, dlMwVars, histVars, wVars, pureVars>>

\* the player table over all rosters
SpecRows == Init /\ [][UpdateRows]_vars

\* _load_history_from_csv over logs of several lengths
InitHist ==
    MonitorInit /\ WorkerParked /\ UrlsParked /\ HistInit /\ ProfParked /\ GwinParked

SpecHist == InitHist /\ [][LoadHistory]_vars

\* profiles through the editor, to_dict and from_dict
InitProf ==
    MonitorInit /\ WorkerParked /\ UrlsParked /\ HistParked /\ ProfInit /\ GwinParked

NextProf ==
    \/ EditorSave
    \/ ProfileToDict
    \/ ProfileFromDict

SpecProf == InitProf /\ [][NextProf]_vars

\* preferences from prefs.json through the settings dialog and the graph combo
InitPrefs ==
    MonitorInit /\ WorkerParked /\ UrlsParked /\ HistParked /\ ProfParked /\ GwinInit

NextPrefs ==
    \/ LoadPrefs
    \/ SettingsSave
    \/ GraphWindowChanged

SpecPrefs == InitPrefs /\ [][NextPrefs]_vars

\* _build_url over all templates, bases and map names
InitUrl ==
    MonitorInit /\ WorkerParked /\ UrlsInit /\ HistParked /\ ProfParked /\ GwinParked

SpecUrl == InitUrl /\ [][BuildUrls]_vars


(***************************************************************************)
(* Properties of the monitor                                               *)
(***************************************************************************)
HasToast(toasts, msg) == \E i \in 1..Len(toasts) : toasts[i].msg = msg

\* C1: once at least one poll outcome has been applied since the profile was
\* activated, the state label is OFFLINE exactly when the latest 5 or more outcomes
\* are all failures, and ONLINE exactly when the latest outcome is a success.
C1_OfflineIffFiveFailures ==
    outcomes # <<>> =>
        /\ (lbl_ov_state = "OFFLINE") <=> (TrailingFailures(outcomes) >= 5)
        /\ (lbl_ov_state = "ONLINE") <=> outcomes[Len(outcomes)]

\* C1 witness: the fifth consecutive failure has been applied after a success
C1_Witness ==
    /\ Len(outcomes) > TrailingFailures(outcomes)
    /\ TrailingFailures(outcomes) = 5
    /\ lbl_ov_state = "OFFLINE"

OfflineFlagFlips ==
    /\ last_offline_state # "None"
    /\ last_offline_state' # "None"
    /\ last_offline_state' # last_offline_state

FailedPollApplied == outcomes' = Append(outcomes, FALSE)

InSignals(id) == Cardinality({i \in 1..Len(poll_signals) : poll_signals[i].id = id})
InRunning(id) == Cardinality({r \in poll_running : r.id = id})

\* C5: at most one poll is running at any time, and every submitted poll is either
\* still running, or has one result queued for the GUI thread, or has had exactly
\* one result applied by _apply_poll_result (never none and never two).
C5_OnePollInFlight ==
    /\ Cardinality(poll_running) <= 1
    /\ \A id \in 1..poll_count :
          InRunning(id) + InSignals(id) + delivered[id] = 1
    /\ \A id \in PollIds : id > poll_count => delivered[id] = 0

\* C5 witness: start_poll has been triggered while a poll was running, more than one
\* poll has been submitted and the results of the earlier ones were applied
C5_Witness ==
    /\ poll_count >= 3
    /\ Cardinality(poll_running) = 1
    /\ delivered[1] = 1
    /\ delivered[2] = 1


(***************************************************************************)
(* DownloadWorker: cancel(), _download_stream(), run()                     *)
(***************************************************************************)
\* responses of urllib.request.urlopen: a response, an HTTPError, any other exception
HttpErrors == {"HTTP 404", "HTTP 500"}
TransportErrors == {"timed out"}
OpenOutcomes == {"ok"} \cup HttpErrors \cup TransportErrors

\* Content-Length the server advertises; 0 when the header is missing
Totals == {0, 3}

\* the exceptions the decompression step can raise, and the message run() builds from them
DecompressErrors == {"corrupt", "write_error"}
DecompressOutcomes == {"ok"} \cup DecompressErrors
DecompressFailureMsg(e) ==
    CASE e = "corrupt" -> "Downloaded .bz2 but failed to decompress: Invalid data stream"
      [] e = "write_error" ->
            "Downloaded .bz2 but failed to decompress: No space left on device"
DecompressFailures == {DecompressFailureMsg(e) : e \in DecompressErrors}

\* the size of bz2.decompress(data): the payload is not the compressed file
DecompressedSize(size) == 2 * size

DestFile(ext) == IF ext = ".bsp" THEN fs_bsp ELSE fs_bz2

\* writes of _download_stream go to dest_path, the other file is not touched
WriteDest(ext, file) ==
    /\ fs_bsp' = IF ext = ".bsp" THEN file ELSE fs_bsp
    /\ fs_bz2' = IF ext = ".bsp" THEN fs_bz2 ELSE file

\* self.finished.emit(...); return
Terminal(events, ev) ==
    /\ w_events' = Append(events, ev)
    /\ w_pc' = "done"
    /\ w_ext' = w_ext

\* variant: a failed .bsp.bz2 fetch reports the stream's own message
RunAfterStream_RawMessage(ext, ok, msg, events) ==
    /\ w_stream_result' = [w_stream_result EXCEPT ![ext] = msg]
    /\ IF ext = ".bsp"
       THEN IF ok
            THEN Terminal(events, EvFinished(TRUE, "Downloaded <map>.bsp", BspPath))
            ELSE IF msg = "Cancelled"
            THEN Terminal(events, EvFinished(FALSE, "Cancelled", ""))
            ELSE /\ w_events' = Append(events, EvStatus("Trying .bsp.bz2: <url_bz2>"))
                 /\ w_pc' = "open"
                 /\ w_ext' = ".bsp.bz2"
       ELSE IF ~ok
            THEN Terminal(events, EvFinished(FALSE, msg, ""))
            ELSE /\ w_events' = events
                 /\ w_pc' = "post"
                 /\ w_ext' = w_ext

\* variant: a cancelled .bsp fetch falls through to the .bsp.bz2 attempt
RunAfterStream_CancelFallsThrough(ext, ok, msg, events) ==
    /\ w_stream_result' = [w_stream_result EXCEPT ![ext] = msg]
    /\ IF ext = ".bsp"
       THEN IF ok
            THEN Terminal(events, EvFinished(TRUE, "Downloaded <map>.bsp", BspPath))
            ELSE /\ w_events' = Append(events, EvStatus("Trying .bsp.bz2: <url_bz2>"))
                 /\ w_pc' = "open"
                 /\ w_ext' = ".bsp.bz2"
       ELSE IF ~ok
            THEN IF msg = "Cancelled"
                 THEN Terminal(events, EvFinished(FALSE, "Cancelled", ""))
                 ELSE Terminal(events,
                               EvFinished(FALSE, "Not found on FastDL (.bsp or .bsp.bz2)", ""))
            ELSE /\ w_events' = events
                 /\ w_pc' = "post"
                 /\ w_ext' = w_ext

\* run() from the return of _download_stream(url, dest) = (ok, msg) for stream ext:
\* lines 95-100 for .bsp, 104-109 for .bsp.bz2; events are the signals emitted so far
RunAfterStream(ext, ok, msg, events) ==
    /\ w_stream_result' = [w_stream_result EXCEPT ![ext] = msg]
    /\ IF ext = ".bsp"
       THEN IF ok
            THEN Terminal(events, EvFinished(TRUE, "Downloaded <map>.bsp", BspPath))
            ELSE IF msg = "Cancelled"
            THEN Terminal(events, EvFinished(FALSE, "Cancelled", ""))
            ELSE /\ w_events' = Append(events, EvStatus("Trying .bsp.bz2: <url_bz2>"))
                 /\ w_pc' = "open"
                 /\ w_ext' = ".bsp.bz2"
       ELSE IF ~ok
            THEN IF msg = "Cancelled"
                 THEN Terminal(events, EvFinished(FALSE, "Cancelled", ""))
                 ELSE Terminal(events,
                               EvFinished(FALSE, "Not found on FastDL (.bsp or .bsp.bz2)", ""))
            ELSE /\ w_events' = events
                 /\ w_pc' = "post"
                 /\ w_ext' = w_ext

\* cancel(), called from the UI thread at any moment (MainWindow.cancel_download)
Cancel ==
    /\ w_cancel' = TRUE
    /\ w_cancel_at' = IF w_cancel_at = NeverCancelled
                      THEN [pc |-> w_pc, ext |-> w_ext, chunks |-> w_chunks]
                      ELSE w_cancel_at
    /\ UNCHANGED <<w_pc, w_ext, w_done, w_last_bytes, w_total, w_chunks, w_events,
                   w_requests, fs_bsp, fs_bz2, w_stream_result, w_decomp>>
    /\ UNCHANGED <<monVars, pureVars>>

\* run() up to the first _download_stream call
RunStart ==
    /\ w_pc = "start"
    /\ w_events' = Append(w_events, EvStatus("Trying .bsp: <url_bsp>"))
    /\ w_ext' = ".bsp"
    /\ w_pc' = "open"
    /\ UNCHANGED <<w_cancel, w_done, w_last_bytes, w_total, w_chunks, w_requests,
                   fs_bsp, fs_bz2, w_stream_result, w_decomp, w_cancel_at>>
    /\ UNCHANGED <<monVars, pureVars>>

\* _download_stream: the locals are reset and http_open(url) sends the request
HttpOpen ==
    /\ w_pc = "open"
    /\ w_done' = 0
    /\ w_last_bytes' = 0
    /\ w_chunks' = 0
    /\ w_requests' = Append(w_requests, [ext |-> w_ext, after_cancel |-> w_cancel])
    /\ w_pc' = "connect"
    /\ UNCHANGED <<w_ext, w_cancel, w_total, w_events, fs_bsp, fs_bz2,
                   w_stream_result, w_decomp, w_cancel_at>>
    /\ UNCHANGED <<monVars, pureVars>>

\* http_open returns a response (status "Downloading", the destination is opened "wb")
\* or raises, and then _download_stream returns (False, message)
HttpRespond ==
    /\ w_pc = "connect"
    /\ \E outcome \in OpenOutcomes :
         IF outcome = "ok"
         THEN /\ \E total \in Totals : w_total' = total
              /\ w_events' = Append(w_events, EvStatus("Downloading: <url>"))
              /\ WriteDest(w_ext, FileTruncated)
              /\ w_pc' = "check"
              /\ UNCHANGED <<w_ext, w_stream_result>>
         ELSE /\ RunAfterStream(w_ext, FALSE, outcome, w_events)
              /\ UNCHANGED <<w_total, fs_bsp, fs_bz2>>
    /\ UNCHANGED <<w_cancel, w_done, w_last_bytes, w_chunks, w_requests, w_decomp,
                   w_cancel_at>>
    /\ UNCHANGED <<monVars, pureVars>>

\* the head of the read loop: if self._cancel: return False, "Cancelled"
CheckCancel ==
    /\ w_pc = "check"
    /\ IF w_cancel
       THEN RunAfterStream(w_ext, FALSE, "Cancelled", w_events)
       ELSE /\ w_pc' = "read"
            /\ UNCHANGED <<w_ext, w_events, w_stream_result>>
    /\ UNCHANGED <<w_cancel, w_done, w_last_bytes, w_total, w_chunks, w_requests,
                   fs_bsp, fs_bz2, w_decomp, w_cancel_at>>
    /\ UNCHANGED <<monVars, pureVars>>

\* resp.read(64 * 1024) returned a chunk of len bytes; tick: 0.25 s have passed since
\* the last progress event (the speed is per elapsed interval, taken as one unit)
ReadChunk(len, tick) ==
    /\ w_chunks < MaxChunks
    /\ WriteDest(w_ext, [exists |-> TRUE, size |-> DestFile(w_ext).size + len,
                         complete |-> FALSE])
    /\ w_done' = w_done + len
    /\ w_chunks' = w_chunks + 1
    /\ IF tick
       THEN /\ w_events' = Append(w_events,
                                  EvProgress(w_done + len, w_total,
                                             (w_done + len) - w_last_bytes))
            /\ w_last_bytes' = w_done + len
       ELSE UNCHANGED <<w_events, w_last_bytes>>
    /\ w_pc' = "check"
    /\ UNCHANGED <<w_ext, w_stream_result>>

\* resp.read returned b"": the loop breaks, the file is closed, the final progress
\* event is emitted and _download_stream returns (True, "OK")
ReadEnd ==
    /\ WriteDest(w_ext, [DestFile(w_ext) EXCEPT !.complete = TRUE])
    /\ RunAfterStream(w_ext, TRUE, "OK", Append(w_events, EvProgress(w_done, w_total, 0)))
    /\ UNCHANGED <<w_done, w_chunks, w_last_bytes>>

\* variant: the final progress event is emitted on the way out of a failed read too
ReadError_FinalProgress(e) ==
    /\ RunAfterStream(w_ext, FALSE, e, Append(w_events, EvProgress(w_done, w_total, 0)))
    /\ UNCHANGED <<w_done, w_chunks, w_last_bytes, fs_bsp, fs_bz2>>

\* resp.read raised: _download_stream returns (False, str(e)), the file stays as written
ReadError(e) ==
    /\ RunAfterStream(w_ext, FALSE, e, w_events)
    /\ UNCHANGED <<w_done, w_chunks, w_last_bytes, fs_bsp, fs_bz2>>

Read ==
    /\ w_pc = "read"
    /\ \/ \E len \in ChunkLens, tick \in BOOLEAN : ReadChunk(len, tick)
       \/ ReadEnd
       \/ \E e \in TransportErrors : ReadError(e)
    /\ UNCHANGED <<w_cancel, w_total, w_requests, w_decomp, w_cancel_at>>
    /\ UNCHANGED <<monVars, pureVars>>

\* run() after a successful .bsp.bz2 fetch: the check of line 111, then the status
PostCheck ==
    /\ w_pc = "post"
    /\ IF w_cancel
       THEN Terminal(w_events, EvFinished(FALSE, "Cancelled", ""))
       ELSE /\ w_events' = Append(w_events, EvStatus("Decompressing bz2"))
            /\ w_pc' = "decompress"
            /\ w_ext' = w_ext
    /\ UNCHANGED <<w_cancel, w_done, w_last_bytes, w_total, w_chunks, w_requests,
                   fs_bsp, fs_bz2, w_stream_result, w_decomp, w_cancel_at>>
    /\ UNCHANGED <<monVars, pureVars>>

\* variant: the decompressed data is not written and the .bz2 path is reported
DecompressStep_Bz2Only(outcome) ==
    /\ w_decomp' = outcome
    /\ IF outcome = "ok"
       THEN /\ UNCHANGED fs_bsp
            /\ Terminal(w_events,
                        EvFinished(TRUE, "Downloaded & decompressed <map>.bsp", Bz2Path))
       ELSE /\ fs_bsp' = IF outcome = "write_error" THEN FileTruncated ELSE fs_bsp
            /\ Terminal(w_events, EvFinished(FALSE, DecompressFailureMsg(outcome), ""))

\* variant: a decompression failure is reported with the not-found message
DecompressStep_NotFoundOnError(outcome) ==
    /\ w_decomp' = outcome
    /\ IF outcome = "ok"
       THEN /\ fs_bsp' = FileWhole(DecompressedSize(fs_bz2.size))
            /\ Terminal(w_events,
                        EvFinished(TRUE, "Downloaded & decompressed <map>.bsp", BspPath))
       ELSE /\ fs_bsp' = IF outcome = "write_error" THEN FileTruncated ELSE fs_bsp
            /\ Terminal(w_events,
                        EvFinished(FALSE, "Not found on FastDL (.bsp or .bsp.bz2)", ""))

\* bz2.decompress of the whole file, then the write of <map>.bsp; "corrupt" raises
\* before the output is opened, "write_error" after open(bsp_path, "wb")
\* variant: a failed decompression still reports the .bsp path
DecompressStep_PathOnFailure(outcome) ==
    /\ w_decomp' = outcome
    /\ IF outcome = "ok"
       THEN /\ fs_bsp' = FileWhole(DecompressedSize(fs_bz2.size))
            /\ Terminal(w_events,
                        EvFinished(TRUE, "Downloaded & decompressed <map>.bsp", BspPath))
       ELSE /\ fs_bsp' = IF outcome = "write_error" THEN FileTruncated ELSE fs_bsp
            /\ Terminal(w_events, EvFinished(FALSE, DecompressFailureMsg(outcome), BspPath))

DecompressStep(outcome) ==
    /\ w_decomp' = outcome
    /\ IF outcome = "ok"
       THEN /\ fs_bsp' = FileWhole(DecompressedSize(fs_bz2.size))
            /\ Terminal(w_events,
                        EvFinished(TRUE, "Downloaded & decompressed <map>.bsp", BspPath))
       ELSE /\ fs_bsp' = IF outcome = "write_error" THEN FileTruncated ELSE fs_bsp
            /\ Terminal(w_events, EvFinished(FALSE, DecompressFailureMsg(outcome), ""))

Decompress ==
    /\ w_pc = "decompress"
    /\ \E outcome \in DecompressOutcomes : DecompressStep(outcome)
    /\ UNCHANGED <<w_cancel, w_done, w_last_bytes, w_total, w_chunks, w_requests,
                   fs_bz2, w_stream_result, w_cancel_at>>
    /\ UNCHANGED <<monVars, pureVars>>

\* one job of the worker; the monitor's own state stays as constructed
InitDL ==
    /\ MonitorInit
    /\ a2s_available
    /\ prefs.alert_on_map_change
    /\ WorkerInit
    /\ PureParked

NextDL ==
    \/ Cancel
    \/ RunStart
    \/ HttpOpen
    \/ HttpRespond
    \/ CheckCancel
    \/ Read
    \/ PostCheck
    \/ Decompress

SpecDL == InitDL /\ [][NextDL]_vars

\* the steps of the worker thread itself
WorkerStep ==
    \/ RunStart
    \/ HttpOpen
    \/ HttpRespond
    \/ CheckCancel
    \/ Read
    \/ PostCheck
    \/ Decompress

\* the worker thread keeps being scheduled; every stream ends after at most MaxChunks
\* chunks or fails
SpecDLFair == SpecDL /\ WF_vars(WorkerStep)


(***************************************************************************)
(* Properties of the download worker                                       *)
(***************************************************************************)
FinishedEvents == {i \in 1..Len(w_events) : w_events[i].kind = "finished"}
LastEvent == w_events[Len(w_events)]
HasStatus(msg) ==
    \E i \in 1..Len(w_events) : w_events[i].kind = "status" /\ w_events[i].msg = msg
Bz2Requested == \E i \in 1..Len(w_requests) : w_requests[i].ext = ".bsp.bz2"
RequestedAfterCancel == \E i \in 1..Len(w_requests) : w_requests[i].after_cancel

\* the run of the .bsp.bz2 fallback: .bsp answered 404, nobody cancelled, the
\* .bsp.bz2 stream reached its end and the decompression step succeeded
Bz2FallbackRun ==
    /\ w_pc = "done"
    /\ ~w_cancel
    /\ w_stream_result[".bsp"] = "HTTP 404"
    /\ w_stream_result[".bsp.bz2"] = "OK"
    /\ w_decomp = "ok"

\* C6: when the .bsp request fails with HTTP 404, no cancel is requested and the
\* .bsp.bz2 fetch and its decompression succeed, there is a single terminal event, it is
\* finished(ok=True) with the path <out_dir>/<map>.bsp, and both <map>.bsp.bz2 and
\* <map>.bsp exist afterwards.
C6_Bz2FallbackSucceeds ==
    Bz2FallbackRun =>
        /\ Cardinality(FinishedEvents) = 1
        /\ LastEvent.kind = "finished"
        /\ LastEvent.ok
        /\ LastEvent.path = BspPath
        /\ fs_bz2.exists
        /\ fs_bsp.exists

C6_Witness ==
    /\ Bz2FallbackRun
    /\ w_chunks >= 1
    /\ Len(w_requests) = 2

\* cancel() came while the .bsp stream was being read, after at least one chunk, and
\* the stream did not reach its end
CancelledMidBspStream ==
    /\ w_cancel_at.pc \in {"check", "read"}
    /\ w_cancel_at.ext = ".bsp"
    /\ w_cancel_at.chunks >= 1
    /\ w_stream_result[".bsp"] # "OK"

\* C7: if cancel() is called after at least one chunk of the .bsp stream has been read
\* and before the stream ends, the terminal event is finished(False, "Cancelled", "")
\* and the .bsp.bz2 URL is never attempted (no "Trying .bsp.bz2" status, no second
\* request).
C7_CancelMidStream ==
    CancelledMidBspStream =>
        /\ ~Bz2Requested
        /\ ~HasStatus("Trying .bsp.bz2: <url_bz2>")
        /\ w_pc = "done" => LastEvent = EvFinished(FALSE, "Cancelled", "")

\* C8: cancellation takes priority at every point of run() before the terminal event
\* that the cascade passes (before the first request, between the attempts, while a
\* request is failing, during a read, after the last read): the terminal event is
\* "Cancelled" and no URL is requested after the cancel.
C8_CancelTakesPriority ==
    w_cancel_at.pc \in {"start", "open", "connect", "check", "read", "post"} =>
        /\ ~RequestedAfterCancel
        /\ w_pc = "done" => LastEvent = EvFinished(FALSE, "Cancelled", "")

FailureMessages ==
    {"Cancelled", "Not found on FastDL (.bsp or .bsp.bz2)"} \cup DecompressFailures

\* C9: run() emits finished exactly once (none before the run ends, one when it has
\* ended), a failing run's message is "Cancelled", "Not found on FastDL (.bsp or
\* .bsp.bz2)" or a decompression failure message, and no status or progress event
\* follows the terminal event.
C9_SingleTerminalEvent ==
    /\ Cardinality(FinishedEvents) = IF w_pc = "done" THEN 1 ELSE 0
    /\ FinishedEvents # {} => LastEvent.kind = "finished"
    /\ \A i \in FinishedEvents : ~w_events[i].ok => w_events[i].msg \in FailureMessages

C9_Witness ==
    /\ w_pc = "done"
    /\ w_stream_result[".bsp"] = "timed out"
    /\ w_stream_result[".bsp.bz2"] = "HTTP 500"
    /\ ~w_cancel
    /\ LastEvent.msg = "Not found on FastDL (.bsp or .bsp.bz2)"

\* C10: the .bsp URL is requested first; the .bsp.bz2 URL is requested only after the
\* .bsp attempt failed with an outcome other than "Cancelled"; a successful .bsp fetch
\* ends the job with success and no .bsp.bz2 request; decompression starts only after
\* a successful .bsp.bz2 fetch.
C10_CascadeOrdered ==
    /\ Len(w_requests) <= 2
    /\ Len(w_requests) >= 1 => w_requests[1].ext = ".bsp"
    /\ Len(w_requests) = 2 => w_requests[2].ext = ".bsp.bz2"
    /\ (Bz2Requested \/ HasStatus("Trying .bsp.bz2: <url_bz2>")) =>
           w_stream_result[".bsp"] \in HttpErrors \cup TransportErrors
    /\ w_stream_result[".bsp"] = "OK" =>
           /\ ~Bz2Requested
           /\ w_pc = "done"
           /\ LastEvent = EvFinished(TRUE, "Downloaded <map>.bsp", BspPath)
    /\ (w_pc = "decompress" \/ w_decomp # "none" \/ HasStatus("Decompressing bz2")) =>
           w_stream_result[".bsp.bz2"] = "OK"

C10_Witness ==
    /\ w_pc = "done"
    /\ Len(w_requests) = 2
    /\ w_stream_result[".bsp"] = "HTTP 500"
    /\ w_decomp = "corrupt"


\* the decompression step raised after a successful .bsp.bz2 fetch
DecompressionFailed == w_decomp \in DecompressErrors

\* C11: when the .bsp.bz2 fetch succeeds but decompression fails, the terminal event
\* is a failure distinct from cancelled and not-found (ok=False, empty path) and the
\* downloaded <map>.bsp.bz2 is still on disk, as the stream wrote it.
C11_DecompressFailureKeepsBz2 ==
    DecompressionFailed =>
        /\ w_pc = "done"
        /\ w_stream_result[".bsp.bz2"] = "OK"
        /\ LastEvent.kind = "finished"
        /\ ~LastEvent.ok
        /\ LastEvent.path = ""
        /\ LastEvent.msg \in DecompressFailures
        /\ LastEvent.msg \notin {"Cancelled", "Not found on FastDL (.bsp or .bsp.bz2)"}
        /\ fs_bz2 = [exists |-> TRUE, size |-> w_done, complete |-> TRUE]

C11_Witness ==
    /\ w_decomp = "corrupt"
    /\ w_stream_result[".bsp"] = "HTTP 404"
    /\ fs_bz2.size >= 1
    /\ LastEvent.kind = "finished"

TryingStatus(ext) ==
    IF ext = ".bsp" THEN EvStatus("Trying .bsp: <url_bsp>")
    ELSE EvStatus("Trying .bsp.bz2: <url_bz2>")

TryingIdx(ext) == {i \in 1..Len(w_events) : w_events[i] = TryingStatus(ext)}

\* the progress events of the streamed fetch of ext: those after its "Trying" status
\* and, for .bsp, before the "Trying" status of .bsp.bz2
StreamProgress(ext) ==
    {i \in 1..Len(w_events) :
        /\ w_events[i].kind = "progress"
        /\ \E t \in TryingIdx(ext) : t < i
        /\ ext = ".bsp" => \A t \in TryingIdx(".bsp.bz2") : i < t}

\* the destination file still holds what the stream wrote (the decompression step
\* rewrites <map>.bsp)
StreamFileKept(ext) == ext = ".bsp.bz2" \/ w_decomp = "none"

\* C17: within one streamed fetch the bytesDone of successive progress events never
\* decreases and never exceeds the bytes written to the destination file; a stream
\* that reaches its end emits exactly one final progress event with speed 0, after
\* all others, whose bytesDone is the total written; a cancelled or failed stream
\* emits no such event.
C17_ProgressMonotone ==
    \A ext \in Exts :
        LET P == StreamProgress(ext)
            Finals == {i \in P : w_events[i].speed = 0}
        IN  /\ \A i, j \in P : i < j => w_events[i].done <= w_events[j].done
            /\ StreamFileKept(ext) => \A i \in P : w_events[i].done <= DestFile(ext).size
            /\ w_stream_result[ext] = "OK" =>
                   /\ Cardinality(Finals) = 1
                   /\ \A i \in Finals :
                        /\ \A j \in P : j <= i
                        /\ StreamFileKept(ext) => w_events[i].done = DestFile(ext).size
            /\ w_stream_result[ext] # "OK" => Finals = {}

\* C17 witness: the .bsp stream failed after a progress event, the .bsp.bz2 stream
\* reached its end after one
C17_Witness ==
    /\ w_stream_result[".bsp"] = "timed out"
    /\ w_stream_result[".bsp.bz2"] = "OK"
    /\ Cardinality(StreamProgress(".bsp")) = 1
    /\ Cardinality(StreamProgress(".bsp.bz2")) = 2

(***************************************************************************)
(* Properties of the monitor's download jobs                               *)
(***************************************************************************)
\* C12: at most one download job runs at any time, under every interleaving of start
\* requests, thread termination and the queued _cleanup_dl_thread callback.
C12_OneDownloadJob == Cardinality(dl_running) <= 1


(***************************************************************************)
(* Properties of _build_url                                                *)
(***************************************************************************)
BspExt == <<".bsp">>
Bz2Ext == <<".bsp", ".bz2">>

\* the four cases, for the target extension and the other known one
FourCases(url, map_name, target, other, swapped) ==
    IF EndsWith(url, target) THEN url
    ELSE IF EndsWith(url, other) THEN swapped
    ELSE IF EndsWith(url, <<"/">>) THEN url \o map_name \o target
    ELSE url \o target

\* C16: for every template, base and map name, _build_url(".bsp") ends in ".bsp" and
\* not in ".bsp.bz2", _build_url(".bsp.bz2") ends in ".bsp.bz2" and is the .bsp URL with
\* ".bz2" appended, and each result follows the four cases: target extension ->
\* unchanged, other known extension -> swapped, trailing "/" -> map name and
\* extension appended, otherwise -> extension appended.
C16_BuildUrlExtensions ==
    urls.built =>
        LET url == ResolvedUrl(urls.template, urls.base, urls.map_name)
        IN  /\ EndsWith(urls.bsp, BspExt)
            /\ ~EndsWith(urls.bsp, Bz2Ext)
            /\ EndsWith(urls.bz2, Bz2Ext)
            /\ urls.bz2 = urls.bsp \o <<".bz2">>
            /\ urls.bsp = FourCases(url, urls.map_name, BspExt, Bz2Ext,
                                    SubSeq(url, 1, Len(url) - 1))
            /\ urls.bz2 = FourCases(url, urls.map_name, Bz2Ext, BspExt, url \o <<".bz2">>)

\* C16 witness: a template ending in ".bsp.bz2" was cut back to the .bsp URL
C16_Witness ==
    /\ urls.built
    /\ urls.template = <<"{map}", ".bsp", ".bz2">>
    /\ urls.map_name = <<"cp_dustbowl">>
    /\ urls.bsp = <<"cp_dustbowl", ".bsp">>


(***************************************************************************)
(* Properties of the player table                                          *)
(***************************************************************************)
\* the seconds a Time cell stands for (the cells of durations under one hour)
TimeCellSeconds(cell) ==
    IF Len(cell) = 2 THEN cell[1]
    ELSE IF cell[2] = "m" THEN 60 * cell[1] + cell[3]
    ELSE 3600 * cell[1] + 60 * cell[3]

\* row p sorts strictly before row q: higher score, then longer time, then later name
RowBefore(p, q) ==
    \/ p.score > q.score
    \/ p.score = q.score /\ TimeCellSeconds(p.time) > TimeCellSeconds(q.time)
    \/ p.score = q.score /\ TimeCellSeconds(p.time) = TimeCellSeconds(q.time)
         /\ LowerNameRank(p.name) > LowerNameRank(q.name)

\* numberings that give each player one slot number of their own
SlotNumberings ==
    {f \in [{"Ann", "bob", "Cy"} -> 1..3] : \A a, b \in DOMAIN f : a # b => f[a] # f[b]}

AscendingBySlot(rows, slot) ==
    \A i, j \in 1..Len(rows) : i < j => slot[rows[i].name] < slot[rows[j].name]

SuccessfulPollApplied == outcomes' = Append(outcomes, TRUE)

IsPrefix(old, new) == Len(old) <= Len(new) /\ SubSeq(new, 1, Len(old)) = old

RecordsInWindow(h) ==
    LET InWindow(line) == line.kind = "record" /\ 2 * TimestampSeconds(line) >= CutoffTs(h)
        recs == SelectSeq(LogLines(h), InWindow)
    IN  [i \in 1..Len(recs) |-> <<TimestampSeconds(recs[i]), recs[i].count>>]

\* C20: for a log of any length, also one longer than the 6000-line tail,
\* _load_history_from_csv(window) sets history to exactly the (timestamp, count) pairs
\* of the logged records not older than now minus the window, in log order, as long
\* as those records lie within the tail.
C20_HistoryIsWindow ==
    (hist.loaded /\ Len(RecordsInWindow(hist)) <= TailMaxLen - 1) =>
        hist.history = RecordsInWindow(hist)


(***************************************************************************)
(* Properties of profile persistence                                       *)
(***************************************************************************)
ProfLoaded(origin) == prof.stage = "loaded" /\ prof.origin = origin

AddressColons == {i \in 1..Len(prof.d.address) : prof.d.address[i] = ":"}

\* the text after the last ":" of the address, stripped
AddressPortText ==
    LET k == CHOOSE i \in AddressColons : \A j \in AddressColons : j <= i
    IN  Strip(SubSeq(prof.d.address, k + 1, Len(prof.d.address)))

\* the profile the editor produced comes back from from_dict(to_dict(p))
RoundTrips == ProfLoaded("form") => (prof.q.error = "" /\ prof.q.p = prof.p)

\* a record without an optional key loads with that key's default
DefaultsApplied ==
    (ProfLoaded("file") /\ prof.q.error = "") =>
        /\ "fastdl" \notin prof.d.keys => prof.q.p.fastdl = <<>>
        /\ "game" \notin prof.d.keys => prof.q.p.game = <<"tf2">>
        /\ "appid" \notin prof.d.keys => prof.q.p.appid = 0
        /\ "fastdl_template" \notin prof.d.keys =>
               prof.q.p.fastdl_template = DefaultFastdlTemplate
        /\ "auto_download_on_map_change" \notin prof.d.keys =>
               ~prof.q.p.auto_download_on_map_change

\* an address without a port gets 27015; a non-numeric or out-of-range port is an error
PortRules ==
    ProfLoaded("file") =>
        /\ (AddressColons = {} /\ Strip(prof.d.address) # <<>>) =>
               /\ prof.q.error = ""
               /\ prof.q.p.port = 27015
               /\ prof.q.p.host = Strip(prof.d.address)
        /\ (AddressColons # {} /\ AddressPortText \in {<<"abc">>, <<>>, <<"0">>, <<"65536">>})
               => prof.q.error # ""

\* C21: from_dict(to_dict(p)) = p for every profile the editor produces; a record
\* missing fastdl, game, appid, template or the auto-download flag loads with "",
\* "tf2", None, "{base}/maps/{map}.bsp" and False; an address without a port gets
\* 27015; a non-numeric or out-of-range port is rejected with an error.
C21_ProfileRoundTrip == RoundTrips /\ DefaultsApplied /\ PortRules

(***************************************************************************)
(* Properties of the preferences                                           *)
(***************************************************************************)
\* C22: in every reachable state prefs.graph_window_minutes is 5, 15 or 60, whatever
\* prefs.json contained, after any sequence of load_prefs, settings saves and
\* graph-window changes.
C22_GraphWindowInSet == gwin.prefs.graph_window_minutes \in {5, 15, 60}

(***************************************************************************)
(* Properties of the alerts                                                *)
(***************************************************************************)
\* the step shows the player alert
PlayerAlertFires == HasToast(toast_shown', "Player alert")

\* the step fires the alert exactly on the rising edge: a successful poll at or above
\* a positive threshold, the previous successful poll of this profile (if any) below it
FiresOnRisingEdge ==
    PlayerAlertFires <=>
        /\ SuccessfulPollApplied
        /\ prefs.player_alert_threshold > 0
        /\ last_player_count' >= prefs.player_alert_threshold
        /\ last_player_count < prefs.player_alert_threshold

\* the step re-arms the alert
Rearms == last_alert_player_triggered /\ ~last_alert_player_triggered'

\* the step applies a successful poll whose count is below the threshold
LowPollApplied ==
    SuccessfulPollApplied /\ last_player_count' < prefs.player_alert_threshold

\* the toasts download_current_map shows
DownloadToasts ==
    {"FastDL not set", "No map info yet", "Download already running", "Downloading"}

\* the step is apply_profile: a user action that is not the download button
ProfileApplied ==
    /\ user_actions' # user_actions
    /\ \A msg \in DownloadToasts : ~HasToast(toast_shown', msg)

PollResultApplied == Len(outcomes') = Len(outcomes) + 1

\* C24: every poll result applied was produced by a query against the address of the
\* profile that is active when it is applied; a successful one puts that server's
\* name on the display.
C24_ResultOfActiveProfile ==
    [][PollResultApplied =>
          /\ Head(poll_signals).addr = profile.address
          /\ (SuccessfulPollApplied => lbl_ov_server' = ServerNameAt(profile.address))]_vars

(***************************************************************************)
(* Properties of map-change detection                                      *)
(***************************************************************************)
\* the applied poll reports a known map that differs from the known map of the previous
\* successful poll applied since the last apply_profile (last_map is that map, or
\* "Unknown" when there is none)
KnownMapChanged ==
    /\ SuccessfulPollApplied
    /\ lbl_side_map' # "Unknown"
    /\ last_map # "Unknown"
    /\ last_map # lbl_side_map'

\* the step called download_current_map
DownloadAttempted == \E msg \in DownloadToasts : HasToast(toast_shown', msg)

\* the step started a download job
DownloadStarted == Len(dl_jobs') = Len(dl_jobs) + 1

\* C25: the map-change toast (when the preference enables it) and the auto-download
\* (when the profile enables it) happen exactly in the steps that apply a successful
\* poll reporting a known map different from the known map of the previous successful
\* poll applied since the last apply_profile, never for the first successful poll after
\* startup or apply_profile; an auto-download started by the step is for the newly
\* reported map.
C25_MapChangeDetected ==
    [][ /\ (HasToast(toast_shown', "Map changed")
               <=> (prefs.alert_on_map_change /\ KnownMapChanged))
        /\ (SuccessfulPollApplied =>
               (DownloadAttempted
                   <=> (profile.auto_download_on_map_change /\ KnownMapChanged)))
        /\ (SuccessfulPollApplied /\ DownloadStarted =>
               dl_jobs'[Len(dl_jobs')] = lbl_side_map') ]_vars

(***************************************************************************)
(* Properties of the download handles                                      *)
(***************************************************************************)
\* C26: while a download job runs, _dl_worker and _dl_thread refer to it (so that
\* cancel_download reaches it): the queued _cleanup_dl_thread of a finished job never
\* clears the handles of a job started after it.
C26_HandlesReferToRunningJob ==
    \A id \in dl_running : dl_worker = id /\ dl_thread = id

(***************************************************************************)
(* Properties of the files a job leaves and of its terminal event          *)
(***************************************************************************)
\* C27: after a failed or cancelled terminal event the output directory holds no
\* partial or truncated <map>.bsp: if <map>.bsp exists it is a complete file.
C27_NoPartialBsp ==
    (w_pc = "done" /\ ~LastEvent.ok) => (fs_bsp.exists => fs_bsp.complete)

\* C28: in every terminal event ok = True exactly when the final path is non-empty,
\* and then the path is <out_dir>/<map>.bsp; failed and cancelled terminal events
\* carry the empty path.
C28_PathIffOk ==
    \A i \in FinishedEvents :
        /\ w_events[i].ok <=> w_events[i].path # ""
        /\ w_events[i].ok => w_events[i].path = BspPath
        /\ ~w_events[i].ok => w_events[i].path = ""

\* a job that ended in success after decompressing, with its path
C28_Witness ==
    /\ w_pc = "done"
    /\ w_decomp = "ok"
    /\ LastEvent.kind = "finished"
    /\ LastEvent.ok
    /\ LastEvent.path = BspPath

(***************************************************************************)
(* Properties of job termination                                           *)
(***************************************************************************)
\* the worker's run reaches its terminal event (under SpecDLFair)
WorkerTerminates == <>(w_pc = "done")

\* C29: every started job reaches a terminal state, and once its terminal event has
\* been emitted its thread has been told to quit and has stopped running, so that
\* download_current_map accepts a later request.
C29_TerminatedJobIsQuit ==
    \A id \in dl_done : id \in dl_quit /\ id \notin dl_running

(***************************************************************************)
(* Properties of the actions' enablement                                   *)
(***************************************************************************)
AnyActionEnabled == act_connect \/ act_sourcetv \/ act_download

\* the step enables an action that was disabled
ActionBecomesEnabled ==
    \/ ~act_connect /\ act_connect'
    \/ ~act_sourcetv /\ act_sourcetv'
    \/ ~act_download /\ act_download'

\* C30: whenever the displayed state is OFFLINE the connect, SourceTV and download
\* actions are all disabled, and an action becomes enabled only in a step that applies
\* a successful poll, which sets the state to ONLINE.
C30_OfflineDisablesActions ==
    /\ [](lbl_ov_state = "OFFLINE" => ~AnyActionEnabled)
    /\ [][ActionBecomesEnabled =>
              (SuccessfulPollApplied /\ lbl_ov_state' = "ONLINE")]_vars

\* OFFLINE after five failures that followed a poll which had enabled the actions
C30_Witness ==
    /\ lbl_ov_state = "OFFLINE"
    /\ Len(outcomes) = 6
    /\ outcomes[1]
    /\ TrailingFailures(outcomes) = 5
    /\ profile = ProfileAlpha
    /\ lbl_side_map = "cp_dustbowl"
    /\ ~AnyActionEnabled

====
